---- MODULE Spec2Model ----
(***************************************************************************)
(* Model of the py-cachify FastAPI demo service (src/app/main.py,          *)
(* src/app/db.py): three HTTP handlers over one SQL table and one Redis    *)
(* instance.  read_user is wrapped by @cached('read_user-{user_id}',       *)
(* ttl=300); update_user is wrapped by @once('update-user-{user_id}',      *)
(* return_on_locked=JSONResponse(226)).  Every `await` of a handler is one *)
(* atomic step; requests interleave at those steps.                        *)
(***************************************************************************)
EXTENDS Integers, Sequences, FiniteSets, TLC

\* ------------------------------------------------------------------ bounds
NumReq == 2        \* requests that can be in flight at once
MaxId == 2         \* rows the users table can hold
TickStep == 200    \* seconds that pass in one step of the clock

\* --------------------------------------------------------- program constants
TTL == 300                 \* @cached(..., ttl=300)
LockedStatus == 226        \* JSONResponse(..., status_code=226)

Reqs == 1..NumReq
Ids == 1..MaxId

None == [tag |-> "None"]       \* Python None
Absent == [tag |-> "Absent"]   \* a key Redis does not hold
One == [tag |-> "1"]           \* the value @once stores under a lock key
NoExpiry == -1                 \* a key set without ttl
Idle == "idle"

\* Request bodies a client sends (User without id).
Bodies ==
  { [name |-> "Ann", email |-> "a@x.com"],
    [name |-> "Bob", email |-> "b@x.com"] }

\* Request bodies that carry an id as well (User.id is an optional field).
BodiesWithId ==
  { [id |-> i, name |-> b.name, email |-> b.email] : i \in 1..MaxId, b \in Bodies }

\* class User(SQLModel, table=True): id, name, email
User(i, n, e) == [id |-> i, name |-> n, email |-> e]

\* Mutant: @once is left with its default return_on_locked.
LockedResponse_Default == [tag |-> "None"]

\* return_on_locked of @once on update_user
LockedResponse == [status_code |-> LockedStatus, content |-> "Update in progress"]

\* What a request ends with when an exception or a cancellation leaves the handler.
Error == [tag |-> "Error"]
Aborted == [tag |-> "Aborted"]

\* Mutant: @once is given a key that is not formatted with user_id.
LockKey_Shared(i) == <<"update-user", 0>>

\* Key templates of the two decorators, formatted with the handler's user_id.
CacheKey(i) == <<"read_user", i>>
LockKey(i) == <<"update-user", i>>
Keys == {CacheKey(i) : i \in Ids} \cup {LockKey(i) : i \in Ids}

VARIABLES
  db,            \* the users table: id -> [name, email] or None (no row)
  redis,         \* key -> Absent or [val, ttl] (ttl = seconds left, or NoExpiry)
  op,            \* per request: Idle, "create", "read", "update"
  pc,            \* per request: the await the handler is suspended at
  user_id,       \* per request: path parameter
  body,          \* per request: request body (user / new_user)
  user,          \* per request: the handler's local `user` / the wrapped call's result
  result,        \* per request: the response
  storeCalls,    \* history: Data Store calls made by the request
  trace,         \* history: commit / invalidate / release events of the request
  settled,       \* history: per id, an update has completed successfully and none has committed since
  startSettled,  \* history: per read, settled[id] when the read was issued
  pair,          \* history: per update, the update of the same id issued together with it
  watch,         \* observer: the id whose reads and writes are recorded (0: none)
  seen,          \* observer: what the first read of watch returned since its last write or expiry
  mark,          \* observer: per read of watch, "clean" (no write and no expiry since it
                 \*   was issued), "late" (clean, and issued more than TTL after an outside
                 \*   write) or "none"
  sinceWrite,    \* observer: seconds since the last outside write to watch (-1: none pending)
  held           \* observer: every [name, email] the row of watch has held

vars == <<db, redis, op, pc, user_id, body, user, result,
          storeCalls, trace, settled, startSettled, pair,
          watch, seen, mark, sinceWrite, held>>

reqVars == <<op, pc, user_id, body, user, result>>
histVars == <<storeCalls, trace, settled, startSettled, pair>>
obsVars == <<watch, seen, mark, sinceWrite, held>>

\* ------------------------------------------------------------- Data Store
\* session.get(User, user_id)
SessionGet(i) ==
  IF db[i] = None THEN None ELSE User(i, db[i].name, db[i].email)

\* The id the table assigns to an inserted row without id.
NextId == CHOOSE i \in Ids : db[i] = None /\ \A j \in Ids : j < i => db[j] # None

Rows == {i \in Ids : db[i] # None}

\* ------------------------------------------------------------------ Redis
\* cachify.a_get(key): the stored value, None when the key is not there
AGet(k) == IF redis[k] = Absent THEN None ELSE redis[k].val

\* cachify.a_set(key, val, ttl)
ASet(k, v, ttl) == [redis EXCEPT ![k] = [val |-> v, ttl |-> ttl]]

\* cachify.a_delete(key)
ADelete(k) == [redis EXCEPT ![k] = Absent]

\* @cached: a stored value counts as a hit when it is not None
IsHit(v) == v # None

\* @once: the lock is taken when its key holds a value
IsLocked(k) == AGet(k) # None

\* What the observer holds before a read has returned / after the entry it
\* read from has expired.
Unset == [tag |-> "Unset"]
Expired == [tag |-> "Expired"]

\* The state after lifespan's startup, with w the observed id.
Start(w) ==
  /\ db = [i \in Ids |-> None]
  /\ redis = [k \in Keys |-> Absent]
  /\ op = [p \in Reqs |-> Idle]
  /\ pc = [p \in Reqs |-> Idle]
  /\ user_id = [p \in Reqs |-> 0]
  /\ body = [p \in Reqs |-> None]
  /\ user = [p \in Reqs |-> None]
  /\ result = [p \in Reqs |-> None]
  /\ storeCalls = [p \in Reqs |-> 0]
  /\ trace = [p \in Reqs |-> <<>>]
  /\ settled = [i \in Ids |-> FALSE]
  /\ startSettled = [p \in Reqs |-> FALSE]
  /\ pair = [p \in Reqs |-> 0]
  /\ watch = w
  /\ seen = Unset
  /\ mark = [p \in Reqs |-> "none"]
  /\ sinceWrite = -1
  /\ held = {}

Init == Start(0)

\* ------------------------------------------------------------ the observer
\* A write to the row of id i (f: the fields written; since: 0 for a write
\* from outside update_user, -1 otherwise): the reads made so far no longer
\* count as reads of the current row.
ObsWrite(i, f, since) ==
  /\ watch' = watch
  /\ IF i = watch
     THEN /\ seen' = Unset
          /\ sinceWrite' = since
          /\ mark' = [r \in Reqs |-> "none"]
          /\ held' = held \cup {f}
     ELSE UNCHANGED <<seen, sinceWrite, mark, held>>

\* Read p returns v.
ObsReturn(p, v) ==
  /\ seen' = IF user_id[p] = watch /\ mark[p] # "none" /\ seen \in {Unset, Expired}
             THEN v ELSE seen
  /\ UNCHANGED <<watch, mark, sinceWrite, held>>

\* The frame of request p is gone.
ObsForget(p) ==
  /\ mark' = [mark EXCEPT ![p] = "none"]
  /\ UNCHANGED <<watch, seen, sinceWrite, held>>

\* ------------------------------------------------------------ the client
\* A request arrives: FastAPI binds the path parameter and the body and calls
\* the (decorated) handler, which runs to its first await.  Requests are
\* interchangeable, so a new one takes the first free slot.
Issue(p, o, i, b) ==
  /\ op[p] = Idle
  /\ \A q \in Reqs : q < p => op[q] # Idle
  /\ o = "create" =>
       Cardinality(Rows) + Cardinality({q \in Reqs : op[q] = "create" /\ pc[q] = "commit"}) < MaxId
  /\ op' = [op EXCEPT ![p] = o]
  /\ pc' = [pc EXCEPT ![p] =
              CASE o = "create" -> "commit"
                [] o = "read" -> "cache_get"
                [] o = "update" -> "acquire"]
  /\ user_id' = [user_id EXCEPT ![p] = IF o = "create" THEN 0 ELSE i]
  /\ body' = [body EXCEPT ![p] = IF o = "read" THEN None ELSE b]
  /\ startSettled' = [startSettled EXCEPT ![p] = o = "read" /\ settled[i]]
  /\ pair' =
       IF o # "update" THEN pair
       ELSE LET rivals == {q \in Reqs \ {p} : op[q] = "update" /\ user_id[q] = i}
            IN  IF \E q \in rivals : rivals = {q} /\ pc[q] = "acquire" /\ pair[q] = 0
                THEN LET q == CHOOSE q \in rivals : TRUE
                     IN  [pair EXCEPT ![p] = q, ![q] = p]
                ELSE [r \in Reqs |-> IF r \in rivals \/ pair[r] \in rivals THEN 0 ELSE pair[r]]
  /\ mark' = [mark EXCEPT ![p] =
                IF o # "read" \/ i # watch THEN "none"
                ELSE IF sinceWrite > TTL THEN "late" ELSE "clean"]
  /\ UNCHANGED <<db, redis, user, result, storeCalls, trace, settled>>
  /\ UNCHANGED <<watch, seen, sinceWrite, held>>

\* The response has been sent; the request's frame is gone.
Respond(p) ==
  /\ pc[p] = "done"
  /\ op' = [op EXCEPT ![p] = Idle]
  /\ pc' = [pc EXCEPT ![p] = Idle]
  /\ user_id' = [user_id EXCEPT ![p] = 0]
  /\ body' = [body EXCEPT ![p] = None]
  /\ user' = [user EXCEPT ![p] = None]
  /\ result' = [result EXCEPT ![p] = None]
  /\ storeCalls' = [storeCalls EXCEPT ![p] = 0]
  /\ trace' = [trace EXCEPT ![p] = <<>>]
  /\ startSettled' = [startSettled EXCEPT ![p] = FALSE]
  /\ pair' = [r \in Reqs |-> IF r = p \/ pair[r] = p THEN 0 ELSE pair[r]]
  /\ UNCHANGED <<db, redis, settled>>
  /\ ObsForget(p)

\* ------------------------------------------------------------ create_user
\* session.add(user); await session.commit()
CreateCommit(p) ==
  /\ op[p] = "create" /\ pc[p] = "commit"
  /\ db' = [db EXCEPT ![NextId] = body[p]]
  /\ user_id' = [user_id EXCEPT ![p] = NextId]
  /\ pc' = [pc EXCEPT ![p] = "refresh"]
  /\ storeCalls' = [storeCalls EXCEPT ![p] = @ + 1]
  /\ UNCHANGED <<redis, op, body, user, result, trace, settled, startSettled, pair>>
  /\ ObsWrite(NextId, body[p], -1)

\* await session.refresh(user); return user
CreateRefresh(p) ==
  /\ op[p] = "create" /\ pc[p] = "refresh"
  /\ user' = [user EXCEPT ![p] = SessionGet(user_id[p])]
  /\ result' = [result EXCEPT ![p] = SessionGet(user_id[p])]
  /\ pc' = [pc EXCEPT ![p] = "done"]
  /\ storeCalls' = [storeCalls EXCEPT ![p] = @ + 1]
  /\ UNCHANGED <<db, redis, op, user_id, body, trace, settled, startSettled, pair>>
  /\ UNCHANGED obsVars

\* -------------------------------------------------------------- read_user
\* Mutant: the wrapper calls read_user whatever the cache holds.
ReadCacheGet_AlwaysMiss(p) ==
  /\ op[p] = "read" /\ pc[p] = "cache_get"
  /\ pc' = [pc EXCEPT ![p] = "db_get"]
  /\ UNCHANGED <<db, redis, op, user_id, body, user, result, histVars>>
  /\ UNCHANGED obsVars

\* Mutant: any stored value is a hit, a stored None too.
ReadCacheGet_HitOnStored(p) ==
  /\ op[p] = "read" /\ pc[p] = "cache_get"
  /\ IF redis[CacheKey(user_id[p])] # Absent
     THEN /\ result' = [result EXCEPT ![p] = redis[CacheKey(user_id[p])].val]
          /\ pc' = [pc EXCEPT ![p] = "done"]
     ELSE /\ result' = result
          /\ pc' = [pc EXCEPT ![p] = "db_get"]
  /\ UNCHANGED <<db, redis, op, user_id, body, user, histVars>>
  /\ UNCHANGED obsVars

\* @cached: val = await a_get(key); a hit returns val without calling read_user
ReadCacheGet(p) ==
  /\ op[p] = "read" /\ pc[p] = "cache_get"
  /\ LET val == AGet(CacheKey(user_id[p]))
     IN  IF IsHit(val)
         THEN /\ result' = [result EXCEPT ![p] = val]
              /\ pc' = [pc EXCEPT ![p] = "done"]
              /\ ObsReturn(p, val)
         ELSE /\ result' = result
              /\ pc' = [pc EXCEPT ![p] = "db_get"]
              /\ UNCHANGED obsVars
  /\ UNCHANGED <<db, redis, op, user_id, body, user, histVars>>

\* the wrapped body: return await session.get(User, user_id)
ReadDbGet(p) ==
  /\ op[p] = "read" /\ pc[p] = "db_get"
  /\ user' = [user EXCEPT ![p] = SessionGet(user_id[p])]
  /\ pc' = [pc EXCEPT ![p] = "cache_set"]
  /\ storeCalls' = [storeCalls EXCEPT ![p] = @ + 1]
  /\ UNCHANGED <<db, redis, op, user_id, body, result, trace, settled, startSettled, pair>>
  /\ UNCHANGED obsVars

\* Mutant: the result is stored without the decorator's ttl.
ReadCacheSet_NoTtl(p) ==
  /\ op[p] = "read" /\ pc[p] = "cache_set"
  /\ redis' = ASet(CacheKey(user_id[p]), user[p], NoExpiry)
  /\ result' = [result EXCEPT ![p] = user[p]]
  /\ pc' = [pc EXCEPT ![p] = "done"]
  /\ UNCHANGED <<db, op, user_id, body, user, histVars>>
  /\ ObsReturn(p, user[p])

\* @cached: await a_set(key, res, ttl); return res
ReadCacheSet(p) ==
  /\ op[p] = "read" /\ pc[p] = "cache_set"
  /\ redis' = ASet(CacheKey(user_id[p]), user[p], TTL)
  /\ result' = [result EXCEPT ![p] = user[p]]
  /\ pc' = [pc EXCEPT ![p] = "done"]
  /\ UNCHANGED <<db, op, user_id, body, user, histVars>>
  /\ ObsReturn(p, user[p])

\* ------------------------------------------------------------ update_user
Entity(v) == v \notin {None, Error, Aborted, LockedResponse}

\* the steps of update_user that run inside @once's lock
BodyPcs == {"get", "commit", "refresh", "reset", "release"}

InBody(p) == op[p] = "update" /\ pc[p] \in BodyPcs

\* Mutant: the lock is set without looking whether it is taken.
UpdateAcquire_NoCheck(p) ==
  /\ op[p] = "update" /\ pc[p] = "acquire"
  /\ redis' = ASet(LockKey(user_id[p]), One, NoExpiry)
  /\ pc' = [pc EXCEPT ![p] = "get"]
  /\ UNCHANGED <<db, op, user_id, body, user, result, histVars>>
  /\ UNCHANGED obsVars

\* Mutant: the wrapper releases the lock on its way out although it did not
\* take it.
UpdateAcquire_BusyReleases(p) ==
  /\ op[p] = "update" /\ pc[p] = "acquire"
  /\ IF IsLocked(LockKey(user_id[p]))
     THEN /\ result' = [result EXCEPT ![p] = LockedResponse]
          /\ pc' = [pc EXCEPT ![p] = "done"]
          /\ redis' = ADelete(LockKey(user_id[p]))
     ELSE /\ redis' = ASet(LockKey(user_id[p]), One, NoExpiry)
          /\ pc' = [pc EXCEPT ![p] = "get"]
          /\ result' = result
  /\ UNCHANGED <<db, op, user_id, body, user, histVars>>
  /\ UNCHANGED obsVars

\* @once: a taken lock returns return_on_locked at once; a free one is set
\* (without ttl) and the body is entered
UpdateAcquire(p) ==
  /\ op[p] = "update" /\ pc[p] = "acquire"
  /\ IF IsLocked(LockKey(user_id[p]))
     THEN /\ result' = [result EXCEPT ![p] = LockedResponse]
          /\ pc' = [pc EXCEPT ![p] = "done"]
          /\ redis' = redis
     ELSE /\ redis' = ASet(LockKey(user_id[p]), One, NoExpiry)
          /\ pc' = [pc EXCEPT ![p] = "get"]
          /\ result' = result
  /\ UNCHANGED <<db, op, user_id, body, user, histVars>>
  /\ UNCHANGED obsVars

\* Mutant: the early return leaves without going through the release.
UpdateGet_NoReleaseOnNotFound(p) ==
  /\ op[p] = "update" /\ pc[p] = "get"
  /\ LET u == SessionGet(user_id[p])
     IN  IF u = None
         THEN /\ user' = [user EXCEPT ![p] = None]
              /\ result' = [result EXCEPT ![p] = None]
              /\ pc' = [pc EXCEPT ![p] = "done"]
         ELSE /\ user' = [user EXCEPT ![p] = User(u.id, body[p].name, body[p].email)]
              /\ result' = result
              /\ pc' = [pc EXCEPT ![p] = "commit"]
  /\ storeCalls' = [storeCalls EXCEPT ![p] = @ + 1]
  /\ UNCHANGED <<db, redis, op, user_id, body, trace, settled, startSettled, pair>>
  /\ UNCHANGED obsVars

\* Mutant: the id of the body is assigned to the entity as well.
UpdateGet_CopiesId(p) ==
  /\ op[p] = "update" /\ pc[p] = "get"
  /\ LET u == SessionGet(user_id[p])
         newId == IF "id" \in DOMAIN body[p] THEN body[p].id ELSE user_id[p]
     IN  IF u = None
         THEN /\ user' = [user EXCEPT ![p] = None]
              /\ result' = [result EXCEPT ![p] = None]
              /\ pc' = [pc EXCEPT ![p] = "release"]
         ELSE /\ user' = [user EXCEPT ![p] = User(newId, body[p].name, body[p].email)]
              /\ result' = result
              /\ pc' = [pc EXCEPT ![p] = "commit"]
  /\ storeCalls' = [storeCalls EXCEPT ![p] = @ + 1]
  /\ UNCHANGED <<db, redis, op, user_id, body, trace, settled, startSettled, pair>>
  /\ UNCHANGED obsVars

\* user = await session.get(User, user_id); if not user: return None;
\* user.name = new_user.name; user.email = new_user.email
UpdateGet(p) ==
  /\ op[p] = "update" /\ pc[p] = "get"
  /\ LET u == SessionGet(user_id[p])
     IN  IF u = None
         THEN /\ user' = [user EXCEPT ![p] = None]
              /\ result' = [result EXCEPT ![p] = None]
              /\ pc' = [pc EXCEPT ![p] = "release"]
         ELSE /\ user' = [user EXCEPT ![p] = User(u.id, body[p].name, body[p].email)]
              /\ result' = result
              /\ pc' = [pc EXCEPT ![p] = "commit"]
  /\ storeCalls' = [storeCalls EXCEPT ![p] = @ + 1]
  /\ UNCHANGED <<db, redis, op, user_id, body, trace, settled, startSettled, pair>>
  /\ UNCHANGED obsVars

\* Mutant: only the name is assigned before the commit.
UpdateCommit_NameOnly(p) ==
  /\ op[p] = "update" /\ pc[p] = "commit"
  /\ db' = [db EXCEPT ![user[p].id] = [name |-> user[p].name, email |-> @.email]]
  /\ pc' = [pc EXCEPT ![p] = "refresh"]
  /\ storeCalls' = [storeCalls EXCEPT ![p] = @ + 1]
  /\ trace' = [trace EXCEPT ![p] = Append(@, "commit")]
  /\ settled' = [settled EXCEPT ![user_id[p]] = FALSE]
  /\ startSettled' = [r \in Reqs |->
                        startSettled[r] /\ user_id[r] # user_id[p]]
  /\ UNCHANGED <<redis, op, user_id, body, user, result, pair>>
  /\ UNCHANGED obsVars

\* Mutant: the cache is reset before the commit instead of after it.
UpdateCommit_ResetFirst(p) ==
  /\ op[p] = "update" /\ pc[p] = "commit"
  /\ redis' = ADelete(CacheKey(user_id[p]))
  /\ db' = [db EXCEPT ![user[p].id] = [name |-> user[p].name, email |-> user[p].email]]
  /\ pc' = [pc EXCEPT ![p] = "release"]
  /\ result' = [result EXCEPT ![p] = user[p]]
  /\ storeCalls' = [storeCalls EXCEPT ![p] = @ + 2]
  /\ trace' = [trace EXCEPT ![p] = @ \o <<"invalidate", "commit">>]
  /\ settled' = [settled EXCEPT ![user_id[p]] = FALSE]
  /\ startSettled' = [r \in Reqs |->
                        startSettled[r] /\ user_id[r] # user_id[p]]
  /\ UNCHANGED <<op, user_id, body, user, pair>>
  /\ UNCHANGED obsVars

\* session.add(user); await session.commit()
UpdateCommit(p) ==
  /\ op[p] = "update" /\ pc[p] = "commit"
  /\ db' = [db EXCEPT ![user[p].id] = [name |-> user[p].name, email |-> user[p].email]]
  /\ pc' = [pc EXCEPT ![p] = "refresh"]
  /\ storeCalls' = [storeCalls EXCEPT ![p] = @ + 1]
  /\ trace' = [trace EXCEPT ![p] = Append(@, "commit")]
  /\ settled' = [settled EXCEPT ![user_id[p]] = FALSE]
  /\ startSettled' = [r \in Reqs |->
                        startSettled[r] /\ user_id[r] # user_id[p]]
  /\ UNCHANGED <<redis, op, user_id, body, user, result, pair>>
  /\ ObsWrite(user_id[p], [name |-> user[p].name, email |-> user[p].email], -1)

\* await session.refresh(user)
UpdateRefresh(p) ==
  /\ op[p] = "update" /\ pc[p] = "refresh"
  /\ user' = [user EXCEPT ![p] = SessionGet(user[p].id)]
  /\ pc' = [pc EXCEPT ![p] = "reset"]
  /\ storeCalls' = [storeCalls EXCEPT ![p] = @ + 1]
  /\ UNCHANGED <<db, redis, op, user_id, body, result, trace, settled, startSettled, pair>>
  /\ UNCHANGED obsVars

\* Mutant: the reset drops every entry of read_user, not that of user_id.
UpdateReset_AllKeys(p) ==
  /\ op[p] = "update" /\ pc[p] = "reset"
  /\ redis' = [k \in Keys |-> IF k[1] = "read_user" THEN Absent ELSE redis[k]]
  /\ result' = [result EXCEPT ![p] = user[p]]
  /\ pc' = [pc EXCEPT ![p] = "release"]
  /\ trace' = [trace EXCEPT ![p] = Append(@, "invalidate")]
  /\ UNCHANGED <<db, op, user_id, body, user, storeCalls, settled, startSettled, pair>>
  /\ ObsWrite(user_id[p], db[user_id[p]], -1)

\* await read_user.reset(user_id=user_id); return user
UpdateReset(p) ==
  /\ op[p] = "update" /\ pc[p] = "reset"
  /\ redis' = ADelete(CacheKey(user_id[p]))
  /\ result' = [result EXCEPT ![p] = user[p]]
  /\ pc' = [pc EXCEPT ![p] = "release"]
  /\ trace' = [trace EXCEPT ![p] = Append(@, "invalidate")]
  /\ UNCHANGED <<db, op, user_id, body, user, storeCalls, settled, startSettled, pair>>
  /\ ObsWrite(user_id[p], db[user_id[p]], -1)

\* @once leaves the lock on every way out of the body: the lock key is deleted
UpdateRelease(p) ==
  /\ op[p] = "update" /\ pc[p] = "release"
  /\ redis' = ADelete(LockKey(user_id[p]))
  /\ pc' = [pc EXCEPT ![p] = "done"]
  /\ trace' = [trace EXCEPT ![p] = Append(@, "release")]
  /\ settled' = [settled EXCEPT ![user_id[p]] = @ \/ Entity(result[p])]
  /\ UNCHANGED <<db, op, user_id, body, user, result, storeCalls, startSettled, pair>>
  /\ UNCHANGED obsVars

\* --------------------------------------------- failures and cancellation
\* The awaits of the three handlers that call the Data Store, the cache or the
\* lock store (the release of the lock is @once's own exit, not one of them).
AwaitPcs == {"commit", "refresh", "cache_get", "db_get", "cache_set", "acquire", "get", "reset"}

\* Mutant: a failing cache get counts as a miss and a failing lock acquisition
\* as a free lock; the handler goes on.
Leave_FallThrough(p, outcome) ==
  /\ pc[p] \in AwaitPcs
  /\ IF pc[p] \in {"cache_get", "acquire"}
     THEN /\ pc' = [pc EXCEPT ![p] = IF pc[p] = "cache_get" THEN "db_get" ELSE "get"]
          /\ UNCHANGED <<result, user, body, storeCalls, trace>>
     ELSE /\ result' = [result EXCEPT ![p] = outcome]
          /\ pc' = [pc EXCEPT ![p] = IF InBody(p) THEN "release" ELSE "done"]
          /\ user' = [user EXCEPT ![p] = None]
          /\ body' = [body EXCEPT ![p] = None]
          /\ storeCalls' = [storeCalls EXCEPT ![p] = 0]
          /\ trace' = [trace EXCEPT ![p] = <<>>]
  /\ UNCHANGED <<db, redis, op, user_id, settled, startSettled, pair>>
  /\ UNCHANGED obsVars

\* Mutant: the lock is released on a normal return only.
Leave_NoRelease(p, outcome) ==
  /\ pc[p] \in AwaitPcs
  /\ result' = [result EXCEPT ![p] = outcome]
  /\ pc' = [pc EXCEPT ![p] = "done"]
  /\ user' = [user EXCEPT ![p] = None]
  /\ body' = [body EXCEPT ![p] = None]
  /\ storeCalls' = [storeCalls EXCEPT ![p] = 0]
  /\ trace' = [trace EXCEPT ![p] = <<>>]
  /\ UNCHANGED <<db, redis, op, user_id, settled, startSettled, pair>>
  /\ ObsForget(p)

\* An exception or a cancellation raised at the current await unwinds the
\* handler's frame: inside @once's lock the way out goes through the release,
\* anywhere else the request ends.
Leave(p, outcome) ==
  /\ pc[p] \in AwaitPcs
  /\ result' = [result EXCEPT ![p] = outcome]
  /\ pc' = [pc EXCEPT ![p] = IF InBody(p) THEN "release" ELSE "done"]
  /\ user' = [user EXCEPT ![p] = None]
  /\ body' = [body EXCEPT ![p] = None]
  /\ storeCalls' = [storeCalls EXCEPT ![p] = 0]
  /\ trace' = [trace EXCEPT ![p] = <<>>]
  /\ UNCHANGED <<db, redis, op, user_id, settled, startSettled, pair>>
  /\ ObsForget(p)

\* the Data Store, the cache or the lock store fails at the current await
Raise(p) == Leave(p, Error)

\* the request is cancelled while suspended at the current await
Abort(p) == Leave(p, Aborted)

\* ----------------------------------------------------------------- clock
\* TickStep seconds pass: Redis counts every ttl down and drops expired keys.
Expire(e) ==
  IF e = Absent \/ e.ttl = NoExpiry THEN e
  ELSE IF e.ttl - TickStep <= 0 THEN Absent
  ELSE [e EXCEPT !.ttl = @ - TickStep]

\* The entry read_user keeps for the observed id is dropped by this tick.
WatchedExpires ==
  /\ watch \in Ids
  /\ redis[CacheKey(watch)] # Absent
  /\ redis[CacheKey(watch)].val # None
  /\ Expire(redis[CacheKey(watch)]) = Absent

Tick ==
  /\ \/ \E k \in Keys : redis[k] # Absent /\ redis[k].ttl # NoExpiry
     \/ sinceWrite \in 0..TTL
  /\ redis' = [k \in Keys |-> Expire(redis[k])]
  /\ sinceWrite' = IF sinceWrite \in 0..TTL THEN sinceWrite + TickStep ELSE sinceWrite
  /\ seen' = IF WatchedExpires THEN Expired ELSE seen
  /\ mark' = IF WatchedExpires THEN [r \in Reqs |-> "none"] ELSE mark
  /\ UNCHANGED <<db, reqVars, histVars, watch, held>>

\* ------------------------------------------------------------------ spec
\* the steps of create_user and update_user, and those of read_user
WriteHandler(p) ==
  \/ CreateCommit(p) \/ CreateRefresh(p)
  \/ UpdateAcquire(p) \/ UpdateGet(p) \/ UpdateCommit(p)
  \/ UpdateRefresh(p) \/ UpdateReset(p) \/ UpdateRelease(p)

ReadHandler(p) == ReadCacheGet(p) \/ ReadDbGet(p) \/ ReadCacheSet(p)

Handler(p) == WriteHandler(p) \/ ReadHandler(p)

Next ==
  \/ \E p \in Reqs, o \in {"create", "read", "update"}, i \in Ids, b \in Bodies :
       Issue(p, o, i, b)
  \/ \E p \in Reqs : Handler(p)
  \/ \E p \in Reqs : Raise(p)
  \/ \E p \in Reqs : Abort(p)
  \/ \E p \in Reqs : Respond(p)
  \/ Tick

Spec == Init /\ [][Next]_vars

\* A writer other than this service changes the fields of the row of id i;
\* nothing of the cache is touched.
ExtWrite(i, b) ==
  /\ db[i] # None /\ db[i] # b
  /\ db' = [db EXCEPT ![i] = b]
  /\ settled' = [settled EXCEPT ![i] = FALSE]
  /\ startSettled' = [r \in Reqs |-> startSettled[r] /\ user_id[r] # i]
  /\ ObsWrite(i, b, 0)
  /\ UNCHANGED <<redis, reqVars, storeCalls, trace, pair>>

\* The first (and only) row is created.
ObsCreate(p, b) ==
  /\ Rows = {}
  /\ \A q \in Reqs : op[q] # "create"
  /\ Issue(p, "create", watch, b)

\* The service observed on one id: its row is created once, clients read and
\* update it, a writer outside the service changes it, and time passes.
ObsNext ==
  \/ \E p \in Reqs, b \in Bodies : ObsCreate(p, b)
  \/ \E p \in Reqs : Issue(p, "read", watch, None)
  \/ \E p \in Reqs, b \in Bodies : Issue(p, "update", watch, b)
  \/ \E b \in Bodies : ExtWrite(watch, b)
  \/ \E p \in Reqs : Handler(p)
  \/ \E p \in Reqs : Raise(p)
  \/ \E p \in Reqs : Abort(p)
  \/ \E p \in Reqs : Respond(p)
  \/ Tick

ObsInit == Start(1)

ObsSpec == ObsInit /\ [][ObsNext]_vars

\* The service with clients that only create and update, under the event
\* loop's scheduling: a handler that is ready to run is run, so no request
\* waits forever at an await.
LockNext ==
  \/ \E p \in Reqs, o \in {"create", "update"}, i \in Ids, b \in Bodies :
       Issue(p, o, i, b)
  \/ \E p \in Reqs : WriteHandler(p)
  \/ \E p \in Reqs : Raise(p)
  \/ \E p \in Reqs : Abort(p)
  \/ \E p \in Reqs : Respond(p)

LockSpec == Init /\ [][LockNext]_vars /\ \A p \in Reqs : WF_vars(WriteHandler(p))

\* The creating and updating service with clients whose update bodies carry
\* an id of their own.
IdNext ==
  \/ \E p \in Reqs, b \in Bodies : Issue(p, "create", 1, b)
  \/ \E p \in Reqs, i \in Ids, b \in BodiesWithId : Issue(p, "update", i, b)
  \/ \E p \in Reqs : WriteHandler(p)
  \/ \E p \in Reqs : Raise(p)
  \/ \E p \in Reqs : Abort(p)
  \/ \E p \in Reqs : Respond(p)

IdSpec == Init /\ [][IdNext]_vars

\* The worker handling request p dies while p is inside @once's lock: the
\* request's frame is gone and nothing of the handler runs any more, the
\* release of the lock included.
Crash(p) ==
  /\ InBody(p)
  /\ op' = [op EXCEPT ![p] = Idle]
  /\ pc' = [pc EXCEPT ![p] = Idle]
  /\ user_id' = [user_id EXCEPT ![p] = 0]
  /\ body' = [body EXCEPT ![p] = None]
  /\ user' = [user EXCEPT ![p] = None]
  /\ result' = [result EXCEPT ![p] = None]
  /\ storeCalls' = [storeCalls EXCEPT ![p] = 0]
  /\ trace' = [trace EXCEPT ![p] = <<>>]
  /\ startSettled' = [startSettled EXCEPT ![p] = FALSE]
  /\ pair' = [r \in Reqs |-> IF r = p \/ pair[r] = p THEN 0 ELSE pair[r]]
  /\ UNCHANGED <<db, redis, settled>>
  /\ ObsForget(p)

\* The creating and updating service with workers that can die.  No key of
\* this service has a ttl here (the lock keys are set without one), so the
\* clock changes nothing and is left out.
CrashNext ==
  \/ LockNext
  \/ \E p \in Reqs : Crash(p)

CrashSpec == Init /\ [][CrashNext]_vars /\ \A p \in Reqs : WF_vars(WriteHandler(p))

\* ================================================================ claims
Finished(p) == pc[p] = "done" /\ result[p] \notin {Error, Aborted}

Fields(u) == [name |-> u.name, email |-> u.email]

\* C1: once update(id, f) has completed successfully, a read(id) issued
\* afterwards, with no later update of id, returns an entity whose name and
\* email are f (the row the update left), reads in flight during the update
\* included.
C1_ReadAfterUpdateReturnsUpdate ==
  \A p \in Reqs :
    (op[p] = "read" /\ Finished(p) /\ startSettled[p]) =>
      result[p] = SessionGet(user_id[p])

Together(p, q) ==
  /\ p # q /\ pair[p] = q /\ pair[q] = p
  /\ op[p] = "update" /\ op[q] = "update"
  /\ Finished(p) /\ Finished(q)
  /\ result[p] # None /\ result[q] # None

C4_BusyOnlyFromSameId ==
  [][\A p \in Reqs :
       (op[p] = "update" /\ pc[p] = "acquire" /\ pc'[p] = "done"
          /\ result'[p] = LockedResponse) =>
         \E q \in Reqs \ {p} : InBody(q) /\ user_id[q] = user_id[p]]_vars

C4_Witness ==
  \E p, q \in Reqs :
    /\ InBody(p) /\ InBody(q)
    /\ user_id[p] # user_id[q]
    /\ pc[p] = "release" /\ Entity(result[p])
    /\ pc[q] = "release" /\ Entity(result[q])

\* C5: an update that tries the lock while it is taken ends in that very step
\* with the response of status 226 and body {"status": "Update in progress"},
\* a value and not a raised error, and changes nothing in Redis.
C5_BusyReturnsAtOnce ==
  [][\A p \in Reqs :
       (op[p] = "update" /\ pc[p] = "acquire" /\ pc'[p] # "acquire"
          /\ result'[p] \notin {Error, Aborted}
          /\ redis[LockKey(user_id[p])] # Absent) =>
         /\ pc'[p] = "done"
         /\ result'[p] = [status_code |-> 226, content |-> "Update in progress"]
         /\ redis' = redis]_vars

C5_Witness ==
  \E p \in Reqs :
    /\ op[p] = "update" /\ pc[p] = "done"
    /\ result[p] = [status_code |-> 226, content |-> "Update in progress"]

\* C6: a read that finds an entity under its cache key returns that entity in
\* the same step and has made no Data Store call.
C6_HitSkipsStore ==
  [][\A p \in Reqs :
       (op[p] = "read" /\ pc[p] = "cache_get" /\ pc'[p] # "cache_get"
          /\ result'[p] \notin {Error, Aborted}
          /\ redis[CacheKey(user_id[p])] # Absent
          /\ Entity(redis[CacheKey(user_id[p])].val)) =>
         /\ pc'[p] = "done"
         /\ result'[p] = redis[CacheKey(user_id[p])].val
         /\ storeCalls'[p] = 0
         /\ db' = db]_vars

C6_Witness ==
  \E p \in Reqs :
    /\ op[p] = "read" /\ pc[p] = "done"
    /\ Entity(result[p]) /\ storeCalls[p] = 0

\* C7: no cache entry of an id without row is ever a hit, a read of an id
\* without row gets None from the Data Store, and once the row exists no step
\* of a read yields None: neither the cache lookup, whatever earlier reads of
\* the missing id stored, nor the Data Store; the read returns what it got.
C7_NoNegativeHit ==
  [][/\ \A i \in Ids : db'[i] = None => redis'[CacheKey(i)] = Absent \/ ~IsHit(redis'[CacheKey(i)].val)
     /\ \A p \in Reqs :
          (op[p] = "read" /\ pc'[p] # pc[p] /\ result'[p] \notin {Error, Aborted}) =>
            /\ (pc[p] = "cache_get" /\ pc'[p] = "done") =>
                 Entity(result'[p]) /\ result'[p].id = user_id[p]
            /\ pc[p] = "db_get" =>
                 IF db[user_id[p]] = None THEN user'[p] = None
                 ELSE user'[p] = User(user_id[p], db[user_id[p]].name, db[user_id[p]].email)
            /\ pc[p] = "cache_set" => result'[p] = user[p]]_vars

C7_Witness ==
  \E p \in Reqs :
    /\ op[p] = "read" /\ pc[p] = "done" /\ Entity(result[p]) /\ storeCalls[p] = 1
    /\ \E q \in Reqs :
         /\ op[q] = "read" /\ user_id[q] = user_id[p] /\ pc[q] = "cache_set"
         /\ user[q] = None

\* C8: an update that finds no row returns None with the lock of its id
\* released: the lock is free, or taken again by another update that is now
\* inside it.
C8_NotFoundReleases ==
  \A p \in Reqs :
    (op[p] = "update" /\ pc[p] = "done" /\ result[p] = None) =>
      /\ trace[p] = <<"release">>
      /\ \/ ~IsLocked(LockKey(user_id[p]))
         \/ \E q \in Reqs \ {p} : InBody(q) /\ user_id[q] = user_id[p]

C8_Witness ==
  \E p, q \in Reqs :
    /\ op[p] = "update" /\ pc[p] = "done" /\ result[p] = None
    /\ op[q] = "update" /\ user_id[q] = user_id[p] /\ pc[q] = "get"

\* C9: in a successful update the commit comes first, the invalidation of the
\* cache entry second and the release of the lock last: the row holds the new
\* fields when the entry is reset, and the lock is still set then.
C9_CommitInvalidateRelease ==
  \A p \in Reqs :
    /\ (op[p] = "update" /\ Entity(result[p])) =>
         /\ trace[p] = IF pc[p] = "done"
                       THEN <<"commit", "invalidate", "release">>
                       ELSE <<"commit", "invalidate">>
         /\ pc[p] # "done" => IsLocked(LockKey(user_id[p]))
    /\ (op[p] = "update" /\ pc[p] = "reset") =>
         /\ trace[p] = <<"commit">>
         /\ Fields(SessionGet(user_id[p])) = body[p]
         /\ IsLocked(LockKey(user_id[p]))

C9_Witness ==
  \E p \in Reqs :
    /\ op[p] = "update" /\ pc[p] = "done" /\ Entity(result[p])
    /\ trace[p] = <<"commit", "invalidate", "release">>

Holder(i) == \E p \in Reqs : InBody(p) /\ user_id[p] = i

C12_RepeatedReadsAgree ==
  \A p \in Reqs :
    (op[p] = "read" /\ user_id[p] = watch /\ Finished(p)
       /\ mark[p] # "none" /\ seen \notin {Unset, Expired}) =>
      result[p] = seen

\* Request p takes a step that is not an exception or a cancellation.
Runs(p) == pc'[p] # pc[p] /\ result'[p] \notin {Error, Aborted}

\* C13: an entry set by read(id) lives less than TTL (300) seconds: it is set
\* with ttl 300, the clock counts it down and drops it at 0, so no entry older
\* than its TTL is there to be returned; a read that finds no entry loads the
\* entity from the Data Store, stores it with a fresh ttl and returns it.
C13_ExpiredEntryReloaded ==
  [][ /\ \A i \in Ids :
           redis'[CacheKey(i)] # Absent => redis'[CacheKey(i)].ttl \in 1..TTL
      /\ (sinceWrite >= 0 /\ sinceWrite' > sinceWrite) =>
           \A i \in Ids :
             redis[CacheKey(i)] # Absent =>
               \/ redis'[CacheKey(i)] = Absent /\ redis[CacheKey(i)].ttl <= TickStep
               \/ /\ redis'[CacheKey(i)] # Absent
                  /\ redis'[CacheKey(i)].ttl = redis[CacheKey(i)].ttl - TickStep
      /\ \A p \in Reqs :
           (op[p] = "read" /\ Runs(p)) =>
             /\ (pc[p] = "cache_get" /\ redis[CacheKey(user_id[p])] = Absent) =>
                  pc'[p] = "db_get"
             /\ pc[p] = "db_get" =>
                  pc'[p] = "cache_set" /\ user'[p] = SessionGet(user_id[p])
             /\ pc[p] = "cache_set" =>
                  /\ redis'[CacheKey(user_id[p])] = [val |-> user[p], ttl |-> TTL]
                  /\ result'[p] = user[p]
    ]_vars

\* The entry of id 1 has expired and a read issued after that has loaded the
\* entity from the Data Store.
C13_Witness ==
  \E p \in Reqs :
    /\ op[p] = "read" /\ user_id[p] = watch /\ mark[p] # "none"
    /\ seen = Expired /\ redis[CacheKey(watch)] = Absent
    /\ pc[p] = "cache_set" /\ storeCalls[p] = 1 /\ Entity(user[p])

\* C14: after a write to an entity made outside update_user (no invalidation),
\* every read(id) issued more than one TTL after the write, with no later
\* write, returns the written value, whatever reads run at the same time.
C14_StaleAtMostOneTtl ==
  \A p \in Reqs :
    (op[p] = "read" /\ user_id[p] = watch /\ Finished(p) /\ mark[p] = "late") =>
      result[p] = SessionGet(watch)

\* C15: a failure of the cache, the lock store or the Data Store at an await
\* of read_user or update_user ends the request with the error (through the
\* release when it is inside the lock) and the error stays its response; a
\* read goes from the cache lookup to the Data Store only on a real miss, and
\* an update enters its body only having found the lock free and set it.
C15_FailurePropagates ==
  [][ \A p \in Reqs :
        /\ (result'[p] = Error /\ result[p] # Error) =>
             /\ pc[p] \in AwaitPcs
             /\ pc'[p] = IF InBody(p) THEN "release" ELSE "done"
        /\ result[p] = Error =>
             /\ pc'[p] \in {"release", "done", Idle}
             /\ result'[p] = IF pc'[p] = Idle THEN None ELSE Error
        /\ (op[p] = "read" /\ pc[p] = "cache_get" /\ pc'[p] = "db_get") =>
             ~IsHit(AGet(CacheKey(user_id[p])))
        /\ (op[p] = "update" /\ pc[p] = "acquire" /\ pc'[p] \in BodyPcs) =>
             /\ ~IsLocked(LockKey(user_id[p]))
             /\ redis'[LockKey(user_id[p])] = [val |-> One, ttl |-> NoExpiry]
    ]_vars

\* An update has failed at the lock acquisition (it never was inside the
\* lock) and a read of a cached entity has failed.
C15_Witness ==
  \E p, q \in Reqs :
    /\ op[p] = "update" /\ pc[p] = "done" /\ result[p] = Error /\ trace[p] = <<>>
    /\ ~IsLocked(LockKey(user_id[p]))
    /\ op[q] = "read" /\ pc[q] = "done" /\ result[q] = Error
    /\ IsHit(AGet(CacheKey(user_id[q])))

\* C16: update(id, new_fields) writes the name and the email of new_fields to
\* the row of the path id and to nothing else: no row appears, disappears or
\* moves to another id, whatever id new_fields carries, and the entity it
\* returns has the path id with the new name and email.
C16_OnlyNameAndEmailChange ==
  [][ /\ \A p \in Reqs :
           (op[p] = "update" /\ pc'[p] # pc[p]) =>
             db' = IF pc[p] = "commit" /\ pc'[p] = "refresh"
                   THEN [db EXCEPT ![user_id[p]] = Fields(body[p])]
                   ELSE db
      /\ \A p \in Reqs :
           (op'[p] = "update" /\ Entity(result'[p])) =>
             result'[p] = User(user_id'[p], body'[p].name, body'[p].email)
      /\ (\A p \in Reqs : op[p] # "create") => Rows' = Rows
    ]_vars

\* An update whose body carries another id has returned: the row of the path
\* id has the new fields, and the row of the body's id is none of its doing.
C16_Witness ==
  \E p \in Reqs :
    /\ op[p] = "update" /\ pc[p] = "done" /\ Entity(result[p])
    /\ body[p].id # user_id[p]
    /\ result[p].id = user_id[p]
    /\ db[user_id[p]] = Fields(body[p])
    /\ db[body[p].id] # Fields(body[p])

\* C17: an update that gets the busy response got it at the lock attempt and
\* did nothing else, then or later: no Data Store call, no change of the
\* table, of the cache entry or of the lock that the update in flight holds.
C17_BusyChangesNothing ==
  [][ \A p \in Reqs :
        /\ (result'[p] = LockedResponse /\ result[p] # LockedResponse) =>
             /\ op[p] = "update" /\ pc[p] = "acquire" /\ pc'[p] = "done"
             /\ db' = db /\ redis' = redis
             /\ storeCalls'[p] = 0 /\ trace'[p] = <<>>
        /\ result[p] = LockedResponse =>
             /\ pc'[p] \in {"done", Idle}
             /\ pc'[p] # pc[p] => db' = db /\ redis' = redis
    ]_vars

\* An update has got the busy response while the update holding the lock is
\* between its commit and its release and the stale entry is still cached.
C17_Witness ==
  \E p, q \in Reqs :
    /\ op[p] = "update" /\ pc[p] = "done" /\ result[p] = LockedResponse
    /\ storeCalls[p] = 0 /\ trace[p] = <<>>
    /\ op[q] = "update" /\ user_id[q] = user_id[p] /\ pc[q] \in {"refresh", "reset"}
    /\ redis[LockKey(user_id[q])] = [val |-> One, ttl |-> NoExpiry]
    /\ IsHit(AGet(CacheKey(user_id[q])))
    /\ db[user_id[q]] = Fields(body[q])

\* C19: the steps of update(id, ...) leave the row, the cache entry and the
\* lock of every other id as they are, and the steps of its not-found path
\* leave the whole table and every cache entry as they are.
C19_OtherIdsUntouched ==
  [][ \A p \in Reqs :
        (op[p] = "update" /\ pc'[p] # pc[p]) =>
          /\ \A j \in Ids \ {user_id[p]} :
               /\ db'[j] = db[j]
               /\ redis'[CacheKey(j)] = redis[CacheKey(j)]
               /\ redis'[LockKey(j)] = redis[LockKey(j)]
          /\ ( \/ pc[p] = "get" /\ db[user_id[p]] = None
               \/ pc[p] = "release" /\ result[p] = None ) =>
               /\ db' = db
               /\ \A j \in Ids : redis'[CacheKey(j)] = redis[CacheKey(j)]
    ]_vars

\* An update of one id has committed, invalidated and is about to release,
\* while the other id has a row, a cached entity and a held lock.
C19_Witness ==
  \E p, q \in Reqs :
    /\ op[p] = "update" /\ pc[p] = "release" /\ Entity(result[p])
    /\ trace[p] = <<"commit", "invalidate">>
    /\ InBody(q) /\ user_id[q] # user_id[p]
    /\ db[user_id[q]] # None
    /\ IsHit(AGet(CacheKey(user_id[q])))
    /\ IsLocked(LockKey(user_id[q]))

\* C18: every entry under 'read_user-{id}' holds an entity with that id whose
\* name and email the row of that id has held at some earlier moment.
C18_CacheHoldsPersistedEntity ==
  \A i \in Ids :
    redis[CacheKey(i)] # Absent =>
      LET v == redis[CacheKey(i)].val
      IN  /\ Entity(v)
          /\ v.id = i
          /\ i = watch => Fields(v) \in held

====
